---- MODULE Spec2Model ----
(***************************************************************************)
(* A model of the seeded world generator of bakerfranke/UIC_karel:         *)
(* src/puzzleWorld/PuzzleWorld.py and src/puzzleWorld/AdventureWorld.py.   *)
(* One World object is modelled: its construction (puzzle preparation, the *)
(* retry loop over candidate seeds, placement and validation), and the     *)
(* public operations of a built World.  Spec is the construction, SpecDet  *)
(* two constructions in a row, SpecCycle the pulling of puzzles, SpecMove  *)
(* the operations of a built World with the relocation of the treasure,    *)
(* SpecValidate the validator applied to placements of every kind, and     *)
(* SpecBfs its traversal, one loop iteration at a time.                    *)
(*                                                                         *)
(* random.Random is CPython's Mersenne Twister and is not part of the      *)
(* repository.  It is abstracted as a family of deterministic generators   *)
(* (a linear congruential stream whose seeding is parameterised by `gen`); *)
(* choice, sample, shuffle and randint are built on randbelow exactly as   *)
(* the standard library builds them.                                       *)
(***************************************************************************)
EXTENDS Integers, Sequences, FiniteSets, TLC

VARIABLES
    cls,                    \* which class is constructed
    gen,                    \* the generator of the family that random.Random is
    words_txt,              \* the lines of words.txt
    pc,                     \* "new", "generating", "built", "failed"
    requested,              \* the seed argument of __init__
    seed,                   \* self.seed
    rng,                    \* self.rng (its internal state)
    locations,              \* self.locations
    hazards,                \* self.hazards
    puzzles,                \* self.puzzles            (PuzzleWorld)
    treasure,               \* self.treasure
    map_location,           \* self.map_location       (AdventureWorld)
    device_location,        \* self.device_location    (AdventureWorld)
    word_list,              \* self.word_list
    word_puzzle_sequence,   \* self.word_puzzle_sequence
    word_puzzle_index,      \* self.word_puzzle_index
    number_puzzle_sequence, \* self.number_puzzle_sequence
    number_puzzle_index,    \* self.number_puzzle_index
    base_seed,              \* _generate_valid_world: base_seed
    cand_seed,              \* _generate_valid_world: the local seed
    attempt,                \* _generate_valid_world: completed loop iterations
    ok,                     \* _generate_valid_world: ok of the last validation
    reason,                 \* _generate_valid_world: reason of the last validation
    word_ret,               \* what the last get_next_word_puzzle returned
    number_ret,             \* what the last get_next_number_puzzle returned
    exc,                    \* the exception the last call raised ("None": none)
    word_calls,             \* calls of get_next_word_puzzle so far
    number_calls,           \* calls of get_next_number_puzzle so far
    first,                  \* <<the outcome of an earlier construction>>, or <<>>
    called_with,            \* what the node of the last set_treasure_location held
    bfs                     \* the locals of a call of reachable_from

vars == <<cls, gen, words_txt, pc, requested, seed, rng, locations, hazards,
          puzzles, treasure, map_location, device_location, word_list,
          word_puzzle_sequence, word_puzzle_index, number_puzzle_sequence,
          number_puzzle_index, base_seed, cand_seed, attempt, ok, reason,
          word_ret, number_ret, exc, word_calls, number_calls, first,
          called_with, bfs>>

(***************************************************************************)
(* Bounds of the model.                                                    *)
(***************************************************************************)
MaxSeed == 2
MaxSalt == 1
MaxWords == 2
MaxCalls == 2
MaxHazardNodes == 5
MaxObjectiveNodes == 5

(***************************************************************************)
(* Program constants.                                                      *)
(***************************************************************************)
None == -1
MAX_ATTEMPTS == 1000
num_number_puzzles == 100
NumLocations == 20

(***************************************************************************)
(* The topology.                                                           *)
(***************************************************************************)
\* a slip in the table: node 20 lists 18, which does not list 20
generate_dodecahedron_one_way_edge ==
    [n \in 1..NumLocations |->
       CASE n = 1 -> <<2, 5, 8>>     [] n = 2 -> <<1, 3, 10>>
         [] n = 3 -> <<2, 4, 12>>    [] n = 4 -> <<3, 5, 14>>
         [] n = 5 -> <<1, 4, 6>>     [] n = 6 -> <<5, 7, 15>>
         [] n = 7 -> <<6, 8, 17>>    [] n = 8 -> <<1, 7, 9>>
         [] n = 9 -> <<8, 10, 18>>   [] n = 10 -> <<2, 9, 11>>
         [] n = 11 -> <<10, 12, 19>> [] n = 12 -> <<3, 11, 13>>
         [] n = 13 -> <<12, 14, 20>> [] n = 14 -> <<4, 13, 15>>
         [] n = 15 -> <<6, 14, 16>>  [] n = 16 -> <<15, 17, 20>>
         [] n = 17 -> <<7, 16, 18>>  [] n = 18 -> <<9, 17, 19>>
         [] n = 19 -> <<11, 18, 20>> [] n = 20 -> <<13, 16, 18>>]

generate_dodecahedron ==
    [n \in 1..NumLocations |->
       CASE n = 1 -> <<2, 5, 8>>     [] n = 2 -> <<1, 3, 10>>
         [] n = 3 -> <<2, 4, 12>>    [] n = 4 -> <<3, 5, 14>>
         [] n = 5 -> <<1, 4, 6>>     [] n = 6 -> <<5, 7, 15>>
         [] n = 7 -> <<6, 8, 17>>    [] n = 8 -> <<1, 7, 9>>
         [] n = 9 -> <<8, 10, 18>>   [] n = 10 -> <<2, 9, 11>>
         [] n = 11 -> <<10, 12, 19>> [] n = 12 -> <<3, 11, 13>>
         [] n = 13 -> <<12, 14, 20>> [] n = 14 -> <<4, 13, 15>>
         [] n = 15 -> <<6, 14, 16>>  [] n = 16 -> <<15, 17, 20>>
         [] n = 17 -> <<7, 16, 18>>  [] n = 18 -> <<9, 17, 19>>
         [] n = 19 -> <<11, 18, 20>> [] n = 20 -> <<13, 16, 19>>]

\* list(d.keys()): the keys of a dict in insertion order
Keys(d) == [i \in 1..Cardinality(DOMAIN d) |-> i]

\* set(list)
ToSet(s) == {s[i] : i \in 1..Len(s)}

(***************************************************************************)
(* The deterministic generator standing for random.Random.                 *)
(***************************************************************************)
RngModulus == 65536
RngMultiplier == 16277
RngIncrement == 22657
SeedMult == 31

Generators == {<<m, k>> : m \in {0, SeedMult}, k \in 0..MaxSalt}

Abs(x) == IF x < 0 THEN 0 - x ELSE x

\* random.Random(a) / rng.seed(a): the state is a function of the seed alone
RngSeed(g, a) == (Abs(a) * g[1] + g[2]) % RngModulus

\* _randbelow(n): <<a number in 0..n-1, the state after the draw>>
RandBelow(st, n) ==
    LET nx == (st * RngMultiplier + RngIncrement) % RngModulus
    IN  <<(nx \div 16) % n, nx>>

\* rng.choice(seq)
Choice(st, s) ==
    LET r == RandBelow(st, Len(s)) IN <<s[r[1] + 1], r[2]>>

\* rng.randint(a, b)
RandInt(st, a, b) ==
    LET r == RandBelow(st, b - a + 1) IN <<a + r[1], r[2]>>

\* rng.sample(population, k), the pool branch (len(population) <= 21)
RECURSIVE SampleLoop(_, _, _, _, _)
SampleLoop(st, pool, i, k, result) ==
    IF i = k THEN <<result, st>>
    ELSE LET n == Len(pool)
             r == RandBelow(st, n - i)
             j == r[1] + 1
         IN  SampleLoop(r[2], [pool EXCEPT ![j] = pool[n - i]], i + 1, k,
                        Append(result, pool[j]))

Sample(st, population, k) == SampleLoop(st, population, 0, k, <<>>)

\* rng.shuffle(x): for i in reversed(range(1, len(x))): swap x[i], x[randbelow(i+1)]
RECURSIVE ShuffleLoop(_, _, _)
ShuffleLoop(st, x, i) ==
    IF i < 1 THEN <<x, st>>
    ELSE LET r == RandBelow(st, i + 1)
             j == r[1]
         IN  ShuffleLoop(r[2],
                         [x EXCEPT ![i + 1] = x[j + 1], ![j + 1] = x[i + 1]],
                         i - 1)

Shuffle(st, x) == ShuffleLoop(st, x, Len(x) - 1)

(***************************************************************************)
(* Placement generation.                                                   *)
(***************************************************************************)
\* [r for r in locations if r != self.treasure]
Type1Candidates(locs, t) == SelectSeq(locs, LAMBDA r : r # t)

\* a slip: the type1 hazards are not excluded from the type2 draw
Type2CandidatesNoExclusion(locs, t, h1) == SelectSeq(locs, LAMBDA r : r # t)

\* [r for r in locations if r != self.treasure and r not in type1]
Type2Candidates(locs, t, h1) ==
    SelectSeq(locs, LAMBDA r : r # t /\ r \notin ToSet(h1))

\* [r for r in locations if r is not the treasure, a type1 or a type2 hazard]
Remaining(locs, t, h1, h2) ==
    SelectSeq(locs, LAMBDA r : r # t /\ r \notin ToSet(h1) /\ r \notin ToSet(h2))

\* PuzzleWorld._generate_world: treasure, 2x type1, 2x type2, 2x puzzles
generate_world(st, topo) ==
    LET locs == Keys(topo)
        t  == Choice(st, locs)
        h1 == Sample(t[2], Type1Candidates(locs, t[1]), 2)
        h2 == Sample(h1[2], Type2Candidates(locs, t[1], h1[1]), 2)
        p  == Sample(h2[2], Remaining(locs, t[1], h1[1], h2[1]), 2)
    IN  [treasure |-> t[1], type1 |-> h1[1], type2 |-> h2[1],
         puzzles |-> p[1], map_location |-> None, device_location |-> None,
         rng |-> p[2]]

\* AdventureWorld._generate_world: treasure, 2x type1, 2x type2, map, device
Adventure_generate_world(st, topo) ==
    LET locs == Keys(topo)
        t  == Choice(st, locs)
        h1 == Sample(t[2], Type1Candidates(locs, t[1]), 2)
        h2 == Sample(h1[2], Type2Candidates(locs, t[1], h1[1]), 2)
        p  == Sample(h2[2], Remaining(locs, t[1], h1[1], h2[1]), 2)
    IN  [treasure |-> t[1], type1 |-> h1[1], type2 |-> h2[1],
         puzzles |-> <<>>, map_location |-> p[1][1], device_location |-> p[1][2],
         rng |-> p[2]]

(***************************************************************************)
(* Validation.                                                             *)
(***************************************************************************)
\* safe_locations = [r for r in locations if r not in hazards]
safe_locations(topo, hz) == SelectSeq(Keys(topo), LAMBDA r : r \notin hz)

\* safe_graph = {r: [n for n in self.locations[r] if n in safe_locations] ...}
safe_graph(topo, hz) ==
    LET safe == ToSet(safe_locations(topo, hz))
    IN  [r \in safe |-> SelectSeq(topo[r], LAMBDA n : n \in safe)]

\* the while loop of reachable_from: pop left, mark visited, append the
\* neighbours that are not visited
RECURSIVE BfsLoop(_, _, _)
BfsLoop(visited, q, graph) ==
    IF q = <<>> THEN visited
    ELSE LET r  == Head(q)
             v2 == visited \cup {r}
         IN  BfsLoop(v2, Tail(q) \o SelectSeq(graph[r], LAMBDA n : n \notin v2),
                     graph)

reachable_from(start, graph) == BfsLoop({}, <<start>>, graph)

\* a slip: `if n not in visited` is missing, every neighbour is appended
BfsStepNoVisitedTest(visited, q, graph) ==
    LET r  == Head(q)
        v2 == visited \cup {r}
    IN  [visited |-> v2, q |-> Tail(q) \o graph[r]]

\* one iteration of that while loop, for a traversal followed step by step
BfsStep(visited, q, graph) ==
    LET r  == Head(q)
        v2 == visited \cup {r}
    IN  [visited |-> v2, q |-> Tail(q) \o SelectSeq(graph[r], LAMBDA n : n \notin v2)]

\* no call of reachable_from is running
NoCall == [start |-> None, visited |-> {}, q |-> <<>>, at |-> "none"]

\* a slip: the verdict is returned after the first start
TestFirstSafeOnly(starts, i, needed, graph) ==
    IF i > Len(starts) THEN [ok |-> TRUE, reason |-> <<"OK", None>>]
    ELSE IF ~(needed \subseteq reachable_from(starts[i], graph))
         THEN [ok |-> FALSE,
               reason |-> <<"Start location cannot reach all objectives", starts[i]>>]
         ELSE [ok |-> TRUE, reason |-> <<"OK", None>>]

\* a slip: a start passes when it reaches any one of the objectives
RECURSIVE TestAllSafeAnyObjective(_, _, _, _)
TestAllSafeAnyObjective(starts, i, needed, graph) ==
    IF i > Len(starts) THEN [ok |-> TRUE, reason |-> <<"OK", None>>]
    ELSE IF needed \cap reachable_from(starts[i], graph) = {}
         THEN [ok |-> FALSE,
               reason |-> <<"Start location cannot reach all objectives", starts[i]>>]
         ELSE TestAllSafeAnyObjective(starts, i + 1, needed, graph)

\* for start in safe_locations: ... the first start that cannot reach `needed`
RECURSIVE TestAllSafe(_, _, _, _)
TestAllSafe(starts, i, needed, graph) ==
    IF i > Len(starts) THEN [ok |-> TRUE, reason |-> <<"OK", None>>]
    ELSE IF ~(needed \subseteq reachable_from(starts[i], graph))
         THEN [ok |-> FALSE,
               reason |-> <<"Start location cannot reach all objectives", starts[i]>>]
         ELSE TestAllSafe(starts, i + 1, needed, graph)

\* the first puzzle location that is a hazard (for p in puzzles: if p in hazards)
PuzzleInHazard(ps, hz) == {p \in ps : p \in hz}

\* PuzzleWorld._validate_world
validate_world(topo, h, pz, t) ==
    LET hz == ToSet(h.type1) \cup ToSet(h.type2)
        ps == ToSet(pz)
    IN  IF t = None THEN [ok |-> FALSE, reason |-> <<"Treasure not set.", None>>]
        ELSE IF Cardinality(ps) < 2
        THEN [ok |-> FALSE, reason |-> <<"Missing puzzle locations.", None>>]
        ELSE IF Cardinality(hz \cup ps \cup {t}) < Cardinality(hz) + Cardinality(ps) + 1
        THEN [ok |-> FALSE, reason |-> <<"Overlapping treasure/puzzles/hazards.", None>>]
        ELSE IF t \in hz THEN [ok |-> FALSE, reason |-> <<"Treasure in hazard", t>>]
        ELSE IF PuzzleInHazard(ps, hz) # {}
        THEN [ok |-> FALSE,
              reason |-> <<"Puzzle location in hazard",
                           CHOOSE p \in PuzzleInHazard(ps, hz) : TRUE>>]
        ELSE TestAllSafe(safe_locations(topo, hz), 1, ps \cup {t}, safe_graph(topo, hz))

\* AdventureWorld._validate_world
Adventure_validate_world(topo, h, t, m, d) ==
    LET hz == ToSet(h.type1) \cup ToSet(h.type2)
        key_items == {t, m, d}
    IN  IF t = None \/ m = None \/ d = None
        THEN [ok |-> FALSE, reason |-> <<"Missing key items.", None>>]
        ELSE IF Cardinality(hz \cup key_items) < Cardinality(hz) + Cardinality(key_items)
        THEN [ok |-> FALSE, reason |-> <<"Overlapping key items and hazards.", None>>]
        ELSE IF \E item \in key_items : item \in hz
        THEN [ok |-> FALSE, reason |-> <<"Key item in hazard.", None>>]
        ELSE LET res == TestAllSafe(safe_locations(topo, hz), 1, key_items,
                                    safe_graph(topo, hz))
             IN  IF res.ok THEN res
                 ELSE [ok |-> FALSE,
                       reason |-> <<"Start location cannot reach all key items.",
                                    res.reason[2]>>]

(***************************************************************************)
(* Puzzle preparation.  A word is a sequence of one-character strings (its *)
(* letters are shuffled); the fixed head of a word question is one element.*)
(***************************************************************************)
\* the lines words.txt may hold (mixed case, repeated letters)
WordFile == << <<"C", "a", "b">>, <<"o", "n">>, <<"B", "e", "e">>, <<"a">> >>

\* str.lower() on one character
Lower(c) ==
    CASE c = "A" -> "a" [] c = "B" -> "b" [] c = "C" -> "c" [] OTHER -> c

\* w.lower()
LowerWord(w) == [i \in 1..Len(w) |-> Lower(w[i])]

\* str(n)
Str(n) == ToString(n)

\* ', '.join(map(str, seq))
RECURSIVE JoinFrom(_, _)
JoinFrom(terms, i) ==
    IF i > Len(terms) THEN ""
    ELSE IF i = Len(terms) THEN Str(terms[i])
    ELSE Str(terms[i]) \o ", " \o JoinFrom(terms, i + 1)

Join(terms) == JoinFrom(terms, 1)

\* a slip: the answer is the word as the file has it, without .lower()
WordPuzzleAnswerAsWritten(st, w) ==
    LET sc == Shuffle(st, w)
    IN  <<[type |-> "word",
           question |-> <<"Unscramble this word: ">> \o sc[1],
           answer |-> w],
          sc[2]>>

\* one iteration of `for w in words`
WordPuzzle(st, w) ==
    LET sc == Shuffle(st, w)
    IN  <<[type |-> "word",
           question |-> <<"Unscramble this word: ">> \o sc[1],
           answer |-> LowerWord(w)],
          sc[2]>>

RECURSIVE WordLoop(_, _, _, _)
WordLoop(st, words, i, acc) ==
    IF i > Len(words) THEN <<acc, st>>
    ELSE LET wp == WordPuzzle(st, words[i])
         IN  WordLoop(wp[2], words, i + 1, Append(acc, wp[1]))

\* a slip: the answer is the last term listed (3 for 4 in both formulas)
NumberPuzzleAnswerIsFourthTerm(st) ==
    LET pattern_type == Choice(st, <<"arithmetic", "geometric">>)
        start == RandInt(pattern_type[2], 1, 9)
        step  == RandInt(start[2], 2, 5)
        terms == IF pattern_type[1] = "arithmetic"
                 THEN [i \in 1..4 |-> start[1] + (i - 1) * step[1]]
                 ELSE [i \in 1..4 |-> start[1] * (step[1] ^ (i - 1))]
        answer == IF pattern_type[1] = "arithmetic"
                  THEN Str(start[1] + 3 * step[1])
                  ELSE Str(start[1] * (step[1] ^ 3))
    IN  <<[type |-> "number",
           question |-> "What number comes next? " \o Join(terms) \o ", ...",
           answer |-> answer],
          step[2]>>

\* one iteration of `for _ in range(num_number_puzzles)`
NumberPuzzle(st) ==
    LET pattern_type == Choice(st, <<"arithmetic", "geometric">>)
        start == RandInt(pattern_type[2], 1, 9)
        step  == RandInt(start[2], 2, 5)
        terms == IF pattern_type[1] = "arithmetic"
                 THEN [i \in 1..4 |-> start[1] + (i - 1) * step[1]]
                 ELSE [i \in 1..4 |-> start[1] * (step[1] ^ (i - 1))]
        answer == IF pattern_type[1] = "arithmetic"
                  THEN Str(start[1] + 4 * step[1])
                  ELSE Str(start[1] * (step[1] ^ 4))
    IN  <<[type |-> "number",
           question |-> "What number comes next? " \o Join(terms) \o ", ...",
           answer |-> answer],
          step[2]>>

RECURSIVE NumberLoop(_, _, _)
NumberLoop(st, k, acc) ==
    IF Len(acc) = k THEN <<acc, st>>
    ELSE LET np == NumberPuzzle(st)
         IN  NumberLoop(np[2], k, Append(acc, np[1]))

\* PuzzleWorld._prepare_puzzles
prepare_puzzles(st, wl) ==
    LET words == Shuffle(st, wl)
        wseq  == WordLoop(words[2], words[1], 1, <<>>)
        nseq  == NumberLoop(wseq[2], num_number_puzzles, <<>>)
    IN  [word_puzzle_sequence |-> wseq[1],
         number_puzzle_sequence |-> nseq[1],
         rng |-> nseq[2]]

(***************************************************************************)
(* Queries of a built World (pure functions of its state).                 *)
(***************************************************************************)
\* any(f(neighbor) for neighbor in self.locations[location])
AnyNeighbor(location, S) == \E i \in 1..Len(locations[location]) : locations[location][i] \in S

get_adjacent_locations(location) == locations[location]
has_hazard1(location) == location \in ToSet(hazards.type1)
has_hazard2(location) == location \in ToSet(hazards.type2)
is_hazard1_adjacent(location) == AnyNeighbor(location, ToSet(hazards.type1))
is_hazard2_adjacent(location) == AnyNeighbor(location, ToSet(hazards.type2))
get_treasure_location == treasure
has_treasure(location) == location = treasure
is_treasure_adjacent(location) == AnyNeighbor(location, {treasure})
has_puzzle(location) == location \in ToSet(puzzles)
is_puzzle_adjacent(location) == AnyNeighbor(location, ToSet(hazards.type2))
get_puzzle_locations == puzzles
has_map(location) == location = map_location
neighbor_has_map(location) == AnyNeighbor(location, {map_location})
has_device(location) == location = device_location
neighbor_has_device(location) == AnyNeighbor(location, {device_location})

\* a slip: the puzzle stations are left out of `occupied`
get_unoccupied_locations_without_puzzles ==
    LET occupied == ToSet(hazards.type1) \cup ToSet(hazards.type2) \cup {treasure}
    IN  SelectSeq(Keys(locations), LAMBDA loc : loc \notin occupied)

\* PuzzleWorld.get_unoccupied_locations
get_unoccupied_locations ==
    LET occupied == ToSet(hazards.type1) \cup ToSet(hazards.type2)
                      \cup ToSet(puzzles) \cup {treasure}
    IN  SelectSeq(Keys(locations), LAMBDA loc : loc \notin occupied)

\* a slip: the treasure is left out of `occupied`
Adventure_get_unoccupied_locations_without_treasure ==
    LET occupied == ToSet(hazards.type1) \cup ToSet(hazards.type2)
                      \cup {map_location, device_location}
    IN  SelectSeq(Keys(locations), LAMBDA loc : loc \notin occupied)

\* AdventureWorld.get_unoccupied_locations
Adventure_get_unoccupied_locations ==
    LET occupied == ToSet(hazards.type1) \cup ToSet(hazards.type2)
                      \cup {treasure, map_location, device_location}
    IN  SelectSeq(Keys(locations), LAMBDA loc : loc \notin occupied)

\* the boolean queries that take a location, per class
QueryHolds(q, location) ==
    CASE q = "has_hazard1" -> has_hazard1(location)
      [] q = "has_hazard2" -> has_hazard2(location)
      [] q = "is_hazard1_adjacent" -> is_hazard1_adjacent(location)
      [] q = "is_hazard2_adjacent" -> is_hazard2_adjacent(location)
      [] q = "has_treasure" -> has_treasure(location)
      [] q = "is_treasure_adjacent" -> is_treasure_adjacent(location)
      [] q = "has_puzzle" -> has_puzzle(location)
      [] q = "is_puzzle_adjacent" -> is_puzzle_adjacent(location)
      [] q = "neighbor_has_hazard1" -> is_hazard1_adjacent(location)
      [] q = "neighbor_has_hazard2" -> is_hazard2_adjacent(location)
      [] q = "neighbor_has_treasure" -> is_treasure_adjacent(location)
      [] q = "has_map" -> has_map(location)
      [] q = "neighbor_has_map" -> neighbor_has_map(location)
      [] q = "has_device" -> has_device(location)
      [] q = "neighbor_has_device" -> neighbor_has_device(location)

QueryNames ==
    IF cls = "PuzzleWorld"
    THEN {"has_hazard1", "has_hazard2", "is_hazard1_adjacent", "is_hazard2_adjacent",
          "has_treasure", "is_treasure_adjacent", "has_puzzle", "is_puzzle_adjacent"}
    ELSE {"has_hazard1", "has_hazard2", "neighbor_has_hazard1", "neighbor_has_hazard2",
          "has_treasure", "neighbor_has_treasure", "has_map", "neighbor_has_map",
          "has_device", "neighbor_has_device"}

(***************************************************************************)
(* Relocation.                                                             *)
(***************************************************************************)
\* a slip: the test `location not in self.locations` is missing
set_treasure_location_no_range_check(location) ==
    IF \/ location \in ToSet(hazards.type1)
       \/ location \in ToSet(hazards.type2)
       \/ location \in ToSet(puzzles)
    THEN <<treasure, "ValueError">>
    ELSE <<location, "None">>

\* a slip: the test `location in self.puzzles` is missing
set_treasure_location_no_puzzle_check(location) ==
    IF \/ location \in ToSet(hazards.type1)
       \/ location \in ToSet(hazards.type2)
    THEN <<treasure, "ValueError">>
    ELSE IF location \notin DOMAIN locations
    THEN <<treasure, "ValueError">>
    ELSE <<location, "None">>

\* a slip: the two hazard tests are missing
set_treasure_location_no_hazard_check(location) ==
    IF location \in ToSet(puzzles)
    THEN <<treasure, "ValueError">>
    ELSE IF location \notin DOMAIN locations
    THEN <<treasure, "ValueError">>
    ELSE <<location, "None">>

\* PuzzleWorld.set_treasure_location: <<the treasure afterwards, the exception>>
set_treasure_location(location) ==
    IF \/ location \in ToSet(hazards.type1)
       \/ location \in ToSet(hazards.type2)
       \/ location \in ToSet(puzzles)
    THEN <<treasure, "ValueError">>
    ELSE IF location \notin DOMAIN locations
    THEN <<treasure, "ValueError">>
    ELSE <<location, "None">>

\* a slip: self.treasure = location is done before the occupancy test
Adventure_set_treasure_location_assign_first(location) ==
    IF location \notin DOMAIN locations
    THEN <<treasure, "ValueError">>
    ELSE IF location \notin ToSet(Adventure_get_unoccupied_locations)
    THEN <<location, "ValueError">>
    ELSE <<location, "None">>

\* AdventureWorld.set_treasure_location
Adventure_set_treasure_location(location) ==
    IF location \notin DOMAIN locations
    THEN <<treasure, "ValueError">>
    ELSE IF location \notin ToSet(Adventure_get_unoccupied_locations)
    THEN <<treasure, "ValueError">>
    ELSE <<location, "None">>

(***************************************************************************)
(* Construction: __init__ up to the retry loop, then one action per loop   *)
(* iteration of _generate_valid_world.                                     *)
(***************************************************************************)
\* a slip: the seed argument is dropped, self.seed = random.randint(0, 999999)
InitSeedIgnoresArgument(s, r) == r

\* self.seed = seed if seed is not None else random.randint(0, 999999)
InitSeed(s, r) == IF s # None THEN s ELSE r

\* what random.randint(0, 999999) of the module-level generator may return
EntropySeeds == {0, MaxSeed}

\* a slip: seed -= 1
NextSeedBackwards(s) == s - 1

\* a slip: seed += 2, every other candidate is skipped
NextSeedSkipsOne(s) == s + 2

\* seed += 1
NextSeed(s) == s + 1

\* a slip: range(MAX_ATTEMPTS + 1)
AttemptsAllowedOneMore == MAX_ATTEMPTS + 1

\* a slip: `while True` for the bounded loop (there is always one more iteration)
AttemptsAllowedWhileTrue == attempt + 1

\* for attempt in range(MAX_ATTEMPTS)
AttemptsAllowed == MAX_ATTEMPTS

\* a slip: the seed the loop returns is dropped, self.seed stays as requested
StoredSeedKeepsBase(base, effective) == base

\* a slip: the seed is advanced before it is returned
StoredSeedAdvanced(base, effective) == effective + 1

\* self.seed = self._generate_valid_world(self.seed)
StoredSeed(base, effective) == effective

\* a slip: self.rng.seed(seed) is missing, the stream goes on where it was
ReseedMissing(g, st, s) == st

\* the seed the generator is reset to at the top of an iteration: self.rng.seed(seed)
Reseed(g, st, s) == RngSeed(g, s)

\* a slip: the generator is created without the seed (from a fixed state here)
NewRandomUnseeded(g, sd) == 0

\* self.rng = random.Random(self.seed)
NewRandom(g, sd) == RngSeed(g, sd)

Construct(s) ==
    /\ pc = "new"
    /\ \E r \in EntropySeeds :
         LET sd == InitSeed(s, r)
             st == NewRandom(gen, sd)
             pp == prepare_puzzles(st, words_txt)
         IN  /\ requested' = s
             /\ seed' = sd
             /\ base_seed' = sd
             /\ cand_seed' = sd
             /\ IF cls = "PuzzleWorld"
                THEN /\ word_list' = words_txt
                     /\ word_puzzle_sequence' = pp.word_puzzle_sequence
                     /\ number_puzzle_sequence' = pp.number_puzzle_sequence
                     /\ rng' = pp.rng
                ELSE /\ rng' = st
                     /\ UNCHANGED <<word_list, word_puzzle_sequence,
                                    number_puzzle_sequence>>
    /\ locations' = generate_dodecahedron
    /\ hazards' = [type1 |-> <<>>, type2 |-> <<>>]
    /\ puzzles' = <<>>
    /\ treasure' = None
    /\ map_location' = None
    /\ device_location' = None
    /\ word_puzzle_index' = 0
    /\ number_puzzle_index' = 0
    /\ attempt' = 0
    /\ pc' = "generating"
    /\ UNCHANGED <<bfs, cls, gen, words_txt, ok, reason, word_ret, number_ret, exc,
                   word_calls, number_calls, first,
                   called_with>>

Attempt ==
    /\ pc = "generating"
    /\ attempt < AttemptsAllowed
    /\ \E g \in {IF cls = "PuzzleWorld"
                  THEN generate_world(Reseed(gen, rng, cand_seed), locations)
                  ELSE Adventure_generate_world(Reseed(gen, rng, cand_seed), locations)} :
       \E v \in {IF cls = "PuzzleWorld"
                  THEN validate_world(locations, [type1 |-> g.type1, type2 |-> g.type2],
                                      g.puzzles, g.treasure)
                  ELSE Adventure_validate_world(locations,
                                                [type1 |-> g.type1, type2 |-> g.type2],
                                                g.treasure, g.map_location,
                                                g.device_location)} :
           /\ rng' = g.rng
           /\ treasure' = g.treasure
           /\ hazards' = [type1 |-> g.type1, type2 |-> g.type2]
           /\ puzzles' = g.puzzles
           /\ map_location' = g.map_location
           /\ device_location' = g.device_location
           /\ ok' = v.ok
           /\ reason' = v.reason
           /\ attempt' = attempt + 1
           /\ IF v.ok
              THEN /\ seed' = StoredSeed(base_seed, cand_seed)
                   /\ pc' = "built"
                   /\ UNCHANGED cand_seed
              ELSE /\ cand_seed' = NextSeed(cand_seed)
                   /\ UNCHANGED <<seed, pc>>
    /\ UNCHANGED <<bfs, cls, gen, words_txt, requested, locations, word_list,
                   word_puzzle_sequence, word_puzzle_index, number_puzzle_sequence,
                   number_puzzle_index, base_seed, word_ret, number_ret, exc,
                   word_calls, number_calls, first,
                   called_with>>

\* raise RuntimeError("Failed to generate valid world after 1000 attempts.")
Exhausted ==
    /\ pc = "generating"
    /\ attempt >= AttemptsAllowed
    /\ pc' = "failed"
    /\ exc' = "RuntimeError"
    /\ UNCHANGED <<bfs, cls, gen, words_txt, requested, seed, rng, locations, hazards,
                   puzzles, treasure, map_location, device_location, word_list,
                   word_puzzle_sequence, word_puzzle_index, number_puzzle_sequence,
                   number_puzzle_index, base_seed, cand_seed, attempt, ok, reason,
                   word_ret, number_ret, word_calls, number_calls, first,
                   called_with>>

(***************************************************************************)
(* The public operations of a built World.                                 *)
(***************************************************************************)
\* what the World holds at the node a caller passes to set_treasure_location
Holds(location) ==
    IF location \notin DOMAIN locations THEN "nothing: no node"
    ELSE IF location \in ToSet(hazards.type1) \cup ToSet(hazards.type2) THEN "hazard"
    ELSE IF location \in ToSet(puzzles) \cup {map_location, device_location} THEN "station"
    ELSE IF location = treasure THEN "treasure"
    ELSE "nothing"

SetTreasureLocation(location) ==
    /\ pc = "built"
    /\ LET r == IF cls = "PuzzleWorld" THEN set_treasure_location(location)
                ELSE Adventure_set_treasure_location(location)
       IN  /\ treasure' = r[1]
           /\ exc' = r[2]
    /\ called_with' = Holds(location)
    /\ UNCHANGED <<bfs, cls, gen, words_txt, pc, requested, seed, rng, locations,
                   hazards, puzzles, map_location, device_location, word_list,
                   word_puzzle_sequence, word_puzzle_index, number_puzzle_sequence,
                   number_puzzle_index, base_seed, cand_seed, attempt, ok, reason,
                   word_ret, number_ret, word_calls, number_calls, first>>

\* a slip: the index is advanced without `% len(self.word_puzzle_sequence)`
get_next_word_puzzle_no_wrap ==
    IF word_puzzle_index + 1 > Len(word_puzzle_sequence)
    THEN <<word_puzzle_index, <<>>, "IndexError">>
    ELSE LET p == word_puzzle_sequence[word_puzzle_index + 1]
         IN  <<word_puzzle_index + 1, <<p.question, p.answer>>, "None">>

\* PuzzleWorld.get_next_word_puzzle: <<the index afterwards, the list returned, the exception>>
get_next_word_puzzle ==
    IF word_puzzle_index + 1 > Len(word_puzzle_sequence)
    THEN <<word_puzzle_index, <<>>, "IndexError">>
    ELSE LET p == word_puzzle_sequence[word_puzzle_index + 1]
         IN  <<(word_puzzle_index + 1) % Len(word_puzzle_sequence),
               <<p.question, p.answer>>, "None">>

\* a slip: the number getter reads the cursor of the word puzzles
get_next_number_puzzle_reads_word_cursor ==
    IF word_puzzle_index + 1 > Len(number_puzzle_sequence)
    THEN <<number_puzzle_index, <<>>, "IndexError">>
    ELSE LET p == number_puzzle_sequence[word_puzzle_index + 1]
         IN  <<(word_puzzle_index + 1) % Len(number_puzzle_sequence),
               <<p.question, p.answer>>, "None">>

\* a slip: the index is advanced without `% len(self.number_puzzle_sequence)`
get_next_number_puzzle_no_wrap ==
    IF number_puzzle_index + 1 > Len(number_puzzle_sequence)
    THEN <<number_puzzle_index, <<>>, "IndexError">>
    ELSE LET p == number_puzzle_sequence[number_puzzle_index + 1]
         IN  <<number_puzzle_index + 1, <<p.question, p.answer>>, "None">>

\* PuzzleWorld.get_next_number_puzzle
get_next_number_puzzle ==
    IF number_puzzle_index + 1 > Len(number_puzzle_sequence)
    THEN <<number_puzzle_index, <<>>, "IndexError">>
    ELSE LET p == number_puzzle_sequence[number_puzzle_index + 1]
         IN  <<(number_puzzle_index + 1) % Len(number_puzzle_sequence),
               <<p.question, p.answer>>, "None">>

GetNextWordPuzzle(cap) ==
    /\ pc = "built"
    /\ cls = "PuzzleWorld"
    /\ word_calls < cap
    /\ word_puzzle_index' = get_next_word_puzzle[1]
    /\ word_ret' = get_next_word_puzzle[2]
    /\ exc' = get_next_word_puzzle[3]
    /\ word_calls' = word_calls + 1
    /\ UNCHANGED <<bfs, cls, gen, words_txt, pc, requested, seed, rng, locations,
                   hazards, puzzles, treasure, map_location, device_location,
                   word_list, word_puzzle_sequence, number_puzzle_sequence,
                   number_puzzle_index, base_seed, cand_seed, attempt, ok, reason,
                   number_ret, number_calls, first,
                   called_with>>

GetNextNumberPuzzle(cap) ==
    /\ pc = "built"
    /\ cls = "PuzzleWorld"
    /\ number_calls < cap
    /\ number_puzzle_index' = get_next_number_puzzle[1]
    /\ number_ret' = get_next_number_puzzle[2]
    /\ exc' = get_next_number_puzzle[3]
    /\ number_calls' = number_calls + 1
    /\ UNCHANGED <<bfs, cls, gen, words_txt, pc, requested, seed, rng, locations,
                   hazards, puzzles, treasure, map_location, device_location,
                   word_list, word_puzzle_sequence, word_puzzle_index,
                   number_puzzle_sequence, base_seed, cand_seed, attempt, ok,
                   reason, word_ret, word_calls, first,
                   called_with>>

\* the getters and boolean queries: each result goes to the caller, and the
\* World is as it was
Query ==
    /\ pc = "built"
    /\ \A q \in QueryNames, location \in DOMAIN locations :
          QueryHolds(q, location) \in BOOLEAN
    /\ \A location \in DOMAIN locations :
          Len(get_adjacent_locations(location)) = 3
    /\ get_treasure_location \in DOMAIN locations
    /\ Len(IF cls = "PuzzleWorld" THEN get_unoccupied_locations
           ELSE Adventure_get_unoccupied_locations) >= 0
    /\ UNCHANGED vars

(***************************************************************************)
(* A second construction, with the outcome of the first one kept.          *)
(***************************************************************************)
Outcome ==
    [requested |-> requested, pc |-> pc, seed |-> seed, treasure |-> treasure,
     hazards |-> hazards, puzzles |-> puzzles, map_location |-> map_location,
     device_location |-> device_location,
     word_puzzle_sequence |-> word_puzzle_sequence,
     number_puzzle_sequence |-> number_puzzle_sequence]

Fresh ==
    /\ pc = "new"
    /\ requested = None
    /\ seed = None
    /\ rng = 0
    /\ locations = generate_dodecahedron
    /\ hazards = [type1 |-> <<>>, type2 |-> <<>>]
    /\ puzzles = <<>>
    /\ treasure = None
    /\ map_location = None
    /\ device_location = None
    /\ word_list = <<>>
    /\ word_puzzle_sequence = <<>>
    /\ word_puzzle_index = 0
    /\ number_puzzle_sequence = <<>>
    /\ number_puzzle_index = 0
    /\ base_seed = None
    /\ cand_seed = None
    /\ attempt = 0
    /\ ok = FALSE
    /\ reason = <<"", None>>
    /\ word_ret = <<>>
    /\ number_ret = <<>>
    /\ exc = "None"
    /\ word_calls = 0
    /\ number_calls = 0
    /\ called_with = "no call"

Rebuild ==
    /\ pc = "built"
    /\ first = <<>>
    /\ first' = <<Outcome>>
    /\ pc' = "new"
    /\ requested' = None
    /\ seed' = None
    /\ rng' = 0
    /\ locations' = generate_dodecahedron
    /\ hazards' = [type1 |-> <<>>, type2 |-> <<>>]
    /\ puzzles' = <<>>
    /\ treasure' = None
    /\ map_location' = None
    /\ device_location' = None
    /\ word_list' = <<>>
    /\ word_puzzle_sequence' = <<>>
    /\ word_puzzle_index' = 0
    /\ number_puzzle_sequence' = <<>>
    /\ number_puzzle_index' = 0
    /\ base_seed' = None
    /\ cand_seed' = None
    /\ attempt' = 0
    /\ ok' = FALSE
    /\ reason' = <<"", None>>
    /\ word_ret' = <<>>
    /\ number_ret' = <<>>
    /\ exc' = "None"
    /\ word_calls' = 0
    /\ number_calls' = 0
    /\ called_with' = "no call"
    /\ UNCHANGED <<bfs, cls, gen, words_txt>>

(***************************************************************************)
(* Specifications.                                                         *)
(***************************************************************************)
WordFiles(c) ==
    IF c = "PuzzleWorld"
    THEN {SubSeq(WordFile, 1, n) : n \in 0..(IF MaxWords < Len(WordFile) THEN MaxWords ELSE Len(WordFile))}
    ELSE {<<>>}

Init ==
    /\ cls \in {"PuzzleWorld", "AdventureWorld"}
    /\ gen \in Generators
    /\ words_txt \in WordFiles(cls)
    /\ first = <<>>
    /\ bfs = NoCall
    /\ Fresh

RequestedSeeds == (0..MaxSeed) \cup {None}

\* construction of a World, and reading it
Next ==
    \/ \E s \in RequestedSeeds : Construct(s)
    \/ Attempt
    \/ Exhausted
    \/ Query

Spec == Init /\ [][Next]_vars

\* when the loop has an iteration to make: the guard of Attempt, whose body
\* defines a successor for every state (and always counts the attempt)
AttemptEnabled == pc = "generating" /\ attempt < AttemptsAllowed

\* the construction runs on: __init__ is straight-line, single-threaded code, so
\* an iteration that can be made is made, and so is the raise after the loop.
\* The first fairness condition is WF_vars(Attempt) with ENABLED <<Attempt>>_vars
\* written as AttemptEnabled.
SpecLive ==
    /\ Init
    /\ [][Next]_vars
    /\ ([]<>(~AttemptEnabled) \/ []<><<Attempt>>_vars)
    /\ WF_vars(Exhausted)

\* two constructions in a row, nothing else
NextDet ==
    \/ \E s \in RequestedSeeds : Construct(s)
    \/ Attempt
    \/ Exhausted
    \/ Rebuild

SpecDet == Init /\ [][NextDet]_vars

\* a PuzzleWorld whose puzzles are pulled past the end of both sequences
InitCycle == Init /\ cls = "PuzzleWorld"

NextCycle ==
    \/ \E s \in RequestedSeeds : Construct(s)
    \/ Attempt
    \/ Exhausted
    \/ GetNextWordPuzzle(MaxWords + MaxCalls)
    \/ GetNextNumberPuzzle(num_number_puzzles + MaxCalls)

SpecCycle == InitCycle /\ [][NextCycle]_vars

\* a World built from a given seed (a PuzzleWorld with the longest word file),
\* and every public operation on it
InitMove ==
    /\ Init
    /\ \A w \in WordFiles(cls) : Len(w) <= Len(words_txt)

NextMove ==
    \/ \E s \in 0..MaxSeed : Construct(s)
    \/ Attempt
    \/ Exhausted
    \/ \E location \in 0..(NumLocations + 1) : SetTreasureLocation(location)
    \/ GetNextWordPuzzle(MaxCalls)
    \/ GetNextNumberPuzzle(MaxCalls)
    \/ Query

SpecMove == InitMove /\ [][NextMove]_vars

(***************************************************************************)
(* The validator on its own.  _validate_world reads the attributes of the  *)
(* object, whoever set them: the placements below are attribute values a   *)
(* caller can give it, those that _generate_world never draws included     *)
(* (an objective on a hazard, the treasure on a station, a missing item,   *)
(* a node or a pair of nodes cut off by the hazards).                      *)
(***************************************************************************)
\* the nodes hazards are put on, and the nodes objectives are put on, in the
\* order in which the bounds admit them
HazardOrder ==
    <<2, 5, 8, 3, 10, 1, 4, 6, 7, 9, 11, 12, 13, 14, 15, 16, 17, 18, 19, 20>>

ObjectiveOrder ==
    <<1, 2, 20, 5, 13, 16, 3, 4, 6, 7, 8, 9, 10, 11, 12, 14, 15, 17, 18, 19>>

HazardPool == {HazardOrder[i] : i \in 1..MaxHazardNodes}

ObjectivePool == {ObjectiveOrder[i] : i \in 1..MaxObjectiveNodes}

\* self.hazards: two type1 and two type2 nodes, all different
HazardPlacements ==
    {h \in {[type1 |-> <<a, b>>, type2 |-> <<c, d>>] :
               a \in HazardPool, b \in HazardPool, c \in HazardPool, d \in HazardPool} :
        /\ h.type1[1] < h.type1[2]
        /\ h.type2[1] < h.type2[2]
        /\ Cardinality(ToSet(h.type1) \cup ToSet(h.type2)) = 4}

\* self.treasure: a node, or None
TreasurePlacements == ObjectivePool \cup {None}

\* self.puzzles (map_location and device_location): none, one or two nodes
StationLists ==
    {<<>>, <<ObjectiveOrder[1]>>}
        \cup {st \in {<<a, b>> : a \in ObjectivePool, b \in ObjectivePool} : st[1] < st[2]}

\* an object whose placement attributes are h, t and st
Placed(h, t, st) ==
    /\ pc = "placed"
    /\ locations = generate_dodecahedron
    /\ hazards = h
    /\ treasure = t
    /\ IF cls = "PuzzleWorld"
       THEN /\ puzzles = st
            /\ map_location = None
            /\ device_location = None
       ELSE /\ puzzles = <<>>
            /\ map_location = (IF Len(st) >= 1 THEN st[1] ELSE None)
            /\ device_location = (IF Len(st) >= 2 THEN st[2] ELSE None)
    /\ gen = <<0, 0>>
    /\ words_txt = <<>>
    /\ first = <<>>
    /\ bfs = NoCall
    /\ requested = None
    /\ seed = None
    /\ rng = 0
    /\ word_list = <<>>
    /\ word_puzzle_sequence = <<>>
    /\ word_puzzle_index = 0
    /\ number_puzzle_sequence = <<>>
    /\ number_puzzle_index = 0
    /\ base_seed = None
    /\ cand_seed = None
    /\ attempt = 0
    /\ ok = FALSE
    /\ reason = <<"", None>>
    /\ word_ret = <<>>
    /\ number_ret = <<>>
    /\ exc = "None"
    /\ word_calls = 0
    /\ number_calls = 0
    /\ called_with = "no call"

InitValidate ==
    /\ cls \in {"PuzzleWorld", "AdventureWorld"}
    /\ \E h \in HazardPlacements, t \in TreasurePlacements, st \in StationLists :
          Placed(h, t, st)

\* a call of _validate_world
ValidateWorld ==
    /\ pc = "placed"
    /\ \E v \in {IF cls = "PuzzleWorld"
                  THEN validate_world(locations, hazards, puzzles, treasure)
                  ELSE Adventure_validate_world(locations, hazards, treasure,
                                                map_location, device_location)} :
          /\ ok' = v.ok
          /\ reason' = v.reason
    /\ pc' = "validated"
    /\ UNCHANGED <<bfs, cls, gen, words_txt, requested, seed, rng, locations,
                   hazards, puzzles, treasure, map_location, device_location,
                   word_list, word_puzzle_sequence, word_puzzle_index,
                   number_puzzle_sequence, number_puzzle_index, base_seed,
                   cand_seed, attempt, word_ret, number_ret, exc, word_calls,
                   number_calls, first, called_with>>

NextValidate == ValidateWorld

SpecValidate == InitValidate /\ [][NextValidate]_vars

(***************************************************************************)
(* The traversal of the validator, one iteration of its loop at a time.    *)
(***************************************************************************)
\* the graph reachable_from walks: safe_graph of the enclosing _validate_world
SafeGraphHeld ==
    safe_graph(locations, ToSet(hazards.type1) \cup ToSet(hazards.type2))

\* a placement that passes the basic checks, under every hazard placement
InitBfs ==
    /\ cls \in {"PuzzleWorld", "AdventureWorld"}
    /\ \E h \in HazardPlacements : Placed(h, 20, <<13, 16>>)

\* visited = set(); q = deque([start])        (for start in safe_locations)
ReachableFrom(start) ==
    /\ pc = "placed"
    /\ bfs.at = "none"
    /\ start \in DOMAIN SafeGraphHeld
    /\ bfs' = [start |-> start, visited |-> {}, q |-> <<start>>, at |-> "loop"]
    /\ UNCHANGED <<cls, gen, words_txt, pc, requested, seed, rng, locations,
                   hazards, puzzles, treasure, map_location, device_location,
                   word_list, word_puzzle_sequence, word_puzzle_index,
                   number_puzzle_sequence, number_puzzle_index, base_seed,
                   cand_seed, attempt, ok, reason, word_ret, number_ret, exc,
                   word_calls, number_calls, first, called_with>>

\* while q: r = q.popleft(); visited.add(r); for n in safe_graph[r]: ...
BfsIterate ==
    /\ bfs.at = "loop"
    /\ bfs.q # <<>>
    /\ \E s \in {BfsStep(bfs.visited, bfs.q, SafeGraphHeld)} :
          bfs' = [bfs EXCEPT !.visited = s.visited, !.q = s.q]
    /\ UNCHANGED <<cls, gen, words_txt, pc, requested, seed, rng, locations,
                   hazards, puzzles, treasure, map_location, device_location,
                   word_list, word_puzzle_sequence, word_puzzle_index,
                   number_puzzle_sequence, number_puzzle_index, base_seed,
                   cand_seed, attempt, ok, reason, word_ret, number_ret, exc,
                   word_calls, number_calls, first, called_with>>

\* return visited
BfsReturn ==
    /\ bfs.at = "loop"
    /\ bfs.q = <<>>
    /\ bfs' = [bfs EXCEPT !.at = "returned"]
    /\ UNCHANGED <<cls, gen, words_txt, pc, requested, seed, rng, locations,
                   hazards, puzzles, treasure, map_location, device_location,
                   word_list, word_puzzle_sequence, word_puzzle_index,
                   number_puzzle_sequence, number_puzzle_index, base_seed,
                   cand_seed, attempt, ok, reason, word_ret, number_ret, exc,
                   word_calls, number_calls, first, called_with>>

NextBfs ==
    \/ \E start \in 1..NumLocations : ReachableFrom(start)
    \/ BfsIterate
    \/ BfsReturn

\* the loop is straight-line code of one thread: an iteration that can be made
\* is made, and so is the return
SpecBfs ==
    /\ InitBfs
    /\ [][NextBfs]_vars
    /\ WF_vars(BfsIterate)
    /\ WF_vars(BfsReturn)

(***************************************************************************)
(* Vocabulary of the properties.                                           *)
(***************************************************************************)
Nodes == 1..NumLocations
Type1 == ToSet(hazards.type1)
Type2 == ToSet(hazards.type2)
HazardSet == Type1 \cup Type2
Stations ==
    IF cls = "PuzzleWorld" THEN ToSet(puzzles) ELSE {map_location, device_location}
Objectives == {treasure} \cup Stations
Built == pc = "built"

\* the treasure the winning attempt drew (the placement is a function of the seed)
DrawnTreasure == generate_world(RngSeed(gen, seed), locations).treasure

\* the nodes reachable from n through nodes outside hz only (n itself outside hz)
RECURSIVE Closure(_, _)
Closure(S, hz) ==
    LET T == S \cup (UNION {ToSet(locations[n]) : n \in S} \ hz)
    IN  IF T = S THEN S ELSE Closure(T, hz)

(***************************************************************************)
(* Properties.                                                             *)
(***************************************************************************)

\* C1: in every successfully constructed World (either class, any seed) there
\* are exactly 2 type1 hazards, 2 type2 hazards and 2 puzzle stations (map and
\* device), all of them nodes of 1..20, and the treasure, the type1 hazards,
\* the type2 hazards and the stations are pairwise disjoint.
C1_RolesDisjoint ==
    Built =>
        /\ Len(hazards.type1) = 2 /\ Cardinality(Type1) = 2
        /\ Len(hazards.type2) = 2 /\ Cardinality(Type2) = 2
        /\ Cardinality(Stations) = 2
        /\ (cls = "PuzzleWorld" => Len(puzzles) = 2)
        /\ {treasure} \cup Type1 \cup Type2 \cup Stations \subseteq Nodes
        /\ treasure \notin Type1 \cup Type2 \cup Stations
        /\ Type1 \cap Type2 = {}
        /\ Type1 \cap Stations = {}
        /\ Type2 \cap Stations = {}

\* an AdventureWorld (map and device for stations) built without a seed argument
C1_Witness ==
    /\ Built
    /\ cls = "AdventureWorld"
    /\ requested = None
    /\ treasure = DrawnTreasure

\* C2: in every built World, from every node that is no hazard, the treasure
\* and every puzzle station (map, device) are reachable along edges whose two
\* ends are no hazards.
C2_ObjectivesReachable ==
    Built => \A n \in Nodes \ HazardSet : Objectives \subseteq Closure({n}, HazardSet)

\* a World that was accepted after an earlier placement had been rejected
C2_Witness ==
    /\ Built
    /\ attempt > 1
    /\ reason[1] = "OK"

\* C3: construction ends built with base_seed <= effective seed <=
\* base_seed + 1000 - 1, or failed with RuntimeError; there is no other outcome,
\* and the base seed is the requested seed when one was given.
C3_RetryMonotone ==
    /\ pc \in {"new", "generating", "built", "failed"}
    /\ (pc # "new" /\ requested # None) => base_seed = requested
    /\ Built => /\ base_seed <= seed
                /\ seed <= base_seed + MAX_ATTEMPTS - 1
                /\ exc # "RuntimeError"
    /\ pc = "failed" => exc = "RuntimeError"

\* a World whose effective seed is two past the requested one
C3_Witness ==
    /\ Built
    /\ requested # None
    /\ seed = requested + 2

\* C5: a construction that fails has made exactly 1000 attempts (never a
\* 1001st), each of them rejected, and leaves no World to call (nothing is
\* enabled after the failure); a World that is built passed the validation of
\* its last attempt.
C5_ExhaustedOrValid ==
    /\ attempt <= MAX_ATTEMPTS
    /\ pc = "failed" => /\ attempt = MAX_ATTEMPTS
                        /\ ~ok
                        /\ cand_seed = base_seed + MAX_ATTEMPTS
                        /\ ~ENABLED Next
    /\ Built => /\ ok
                /\ reason[1] = "OK"
                /\ seed = base_seed + attempt - 1

\* a construction that gave up
C5_Witness ==
    /\ pc = "failed"
    /\ exc = "RuntimeError"

\* C4: two constructions with the same requested seed and the same word list
\* end alike: the second one's treasure, hazards, puzzle stations (map and
\* device), effective seed, word-puzzle sequence and number-puzzle sequence are
\* those of the first one, record for record.
C4_Deterministic ==
    (/\ first # <<>>
     /\ pc \in {"built", "failed"}
     /\ requested # None
     /\ requested = first[1].requested)
    => Outcome = first[1]

\* a second PuzzleWorld with two words, built from the seed of the first one,
\* after a rejected placement
C4_Witness ==
    /\ first # <<>>
    /\ Built
    /\ cls = "PuzzleWorld"
    /\ requested # None
    /\ requested = first[1].requested
    /\ seed # requested
    /\ Len(word_puzzle_sequence) = 2
    /\ word_puzzle_sequence[1] # word_puzzle_sequence[2]

\* the record the k-th call of a cyclic sequence returns
KthRecord(sequence, k) ==
    LET p == sequence[((k - 1) % Len(sequence)) + 1]
    IN  <<p.question, p.answer>>

\* C6: on a freshly built PuzzleWorld with N >= 1 word puzzles the k-th call of
\* get_next_word_puzzle returns record (k-1) mod N of the prepared sequence (so
\* the first N calls return each record once, in order, and call N+1 returns
\* the first record again); likewise get_next_number_puzzle with its 100
\* records.
C6_CyclicAccess ==
    (Built /\ cls = "PuzzleWorld") =>
        /\ (Len(word_puzzle_sequence) >= 1 /\ word_calls >= 1) =>
               word_ret = KthRecord(word_puzzle_sequence, word_calls)
        /\ Len(number_puzzle_sequence) = num_number_puzzles
        /\ number_calls >= 1 =>
               number_ret = KthRecord(number_puzzle_sequence, number_calls)

\* both sequences pulled once past their end
C6_Witness ==
    /\ Built
    /\ Len(word_puzzle_sequence) = 2
    /\ word_calls = Len(word_puzzle_sequence) + 1
    /\ number_calls = num_number_puzzles + 1

\* every value a caller may pass for a node: the nodes, and one below and one
\* above them
Targets == 0..(NumLocations + 1)

\* C7: set_treasure_location(location) raises ValueError whenever location is no
\* node of 1..20, or is a type1 hazard, a type2 hazard or a puzzle station (map
\* or device), and then the treasure, the hazards, the stations, the seed and
\* both puzzle cursors are what they were before the call.
C7_InvalidRelocationRejected ==
    [][\A location \in Targets :
          (/\ SetTreasureLocation(location)
           /\ (location \notin Nodes \/ location \in HazardSet \cup Stations))
          => /\ exc' = "ValueError"
             /\ UNCHANGED <<treasure, hazards, puzzles, map_location,
                            device_location, seed, word_puzzle_index,
                            number_puzzle_index>>]_vars

\* a call with 0 or 21 that was refused, on a World whose treasure had been moved
C7_Witness ==
    /\ Built
    /\ exc = "ValueError"
    /\ called_with = "nothing: no node"
    /\ treasure # DrawnTreasure

\* C8 as stated: in both classes set_treasure_location(location) with location
\* the node that holds the treasure raises ValueError and leaves the treasure
\* where it is.
C8_TreasureTargetRejected ==
    [][\A location \in Nodes :
          (SetTreasureLocation(location) /\ location = treasure)
          => (exc' = "ValueError" /\ treasure' = treasure)]_vars

\* C8 amended: set_treasure_location(location) succeeds exactly when location is
\* a node of 1..20 that is no hazard and no puzzle station (map, device) and, in
\* AdventureWorld only, is not the node that holds the treasure; AdventureWorld
\* refuses the treasure's own node with ValueError, PuzzleWorld accepts it; in
\* both the treasure stays where it is after such a call and after any refusal.
C8_RelocationAcceptance ==
    [][\A location \in Targets :
          SetTreasureLocation(location)
          => /\ exc' \in {"None", "ValueError"}
             /\ exc' = "None" <=>
                   /\ location \in Nodes
                   /\ location \notin HazardSet \cup Stations
                   /\ (cls = "AdventureWorld" => location # treasure)
             /\ (location = treasure \/ exc' = "ValueError") => treasure' = treasure]_vars

\* a PuzzleWorld that accepted a relocation to the node of its treasure
C8_Witness ==
    /\ Built
    /\ cls = "PuzzleWorld"
    /\ called_with = "treasure"
    /\ exc = "None"

\* C9: a successful set_treasure_location(location) sets the treasure to
\* location and changes nothing else (hazards, stations, topology, seed, both
\* puzzle sequences, both cursors); and in a built World the hazards and the
\* stations never change and the treasure changes only in a successful
\* set_treasure_location.
C9_OnlyTreasureMoves ==
    [][Built =>
         /\ UNCHANGED <<hazards, puzzles, map_location, device_location>>
         /\ treasure' # treasure =>
               \E location \in Nodes : /\ SetTreasureLocation(location)
                                       /\ exc' = "None"
                                       /\ treasure' = location
         /\ \A location \in Targets :
               (SetTreasureLocation(location) /\ exc' = "None")
               => /\ treasure' = location
                  /\ UNCHANGED <<hazards, puzzles, map_location, device_location,
                                 locations, seed, word_puzzle_sequence,
                                 number_puzzle_sequence, word_puzzle_index,
                                 number_puzzle_index>>]_vars

\* a World whose treasure was moved to a free node, and a puzzle pulled since
C9_Witness ==
    /\ Built
    /\ called_with = "nothing"
    /\ treasure # DrawnTreasure
    /\ number_calls > 0

\* C10: in a built World, whatever set_treasure_location calls (accepted or
\* refused), queries and next-puzzle calls have been made, the treasure, the
\* type1 hazards, the type2 hazards and the puzzle stations together occupy
\* 1 + 2 + 2 + 2 nodes.
C10_RolesNeverOverlap ==
    Built => Cardinality({treasure} \cup Type1 \cup Type2 \cup Stations) = 1 + 2 + 2 + 2

\* after an accepted relocation, puzzle pulls and a relocation refused for a station
C10_Witness ==
    /\ Built
    /\ treasure # DrawnTreasure
    /\ called_with = "station"
    /\ exc = "ValueError"
    /\ word_calls > 0
    /\ number_calls > 0

\* the characters of a word with their multiplicities: two words have the same
\* characters after sorting exactly when these agree
SortedChars(w) ==
    [c \in ToSet(w) |-> Cardinality({i \in 1..Len(w) : w[i] = c})]

\* the scrambled form shown in a word question (what follows its fixed head)
Scrambled(p) == Tail(p.question)

\* C11: for every word puzzle record that puzzle preparation produces, whatever
\* the word list, the sorted characters of the scrambled form in the prompt are
\* the sorted characters of the answer.
C11_PromptIsAnagramOfAnswer ==
    (pc # "new" /\ cls = "PuzzleWorld") =>
        \A i \in 1..Len(word_puzzle_sequence) :
            SortedChars(Scrambled(word_puzzle_sequence[i]))
              = SortedChars(word_puzzle_sequence[i].answer)

\* the patterns a number puzzle may be drawn from: <<kind, start, step>>
NumberPatterns == {"arithmetic", "geometric"} \X (1..9) \X (2..5)

\* term i (from 0) of a pattern
Term(pt, i) == IF pt[1] = "arithmetic" THEN pt[2] + i * pt[3] ELSE pt[2] * pt[3] ^ i

\* the prompt that lists terms 0..3 of a pattern
PromptOf(pt) ==
    "What number comes next? " \o ToString(Term(pt, 0)) \o ", "
        \o ToString(Term(pt, 1)) \o ", " \o ToString(Term(pt, 2)) \o ", "
        \o ToString(Term(pt, 3)) \o ", ..."

\* the fifth term recomputed from the first two terms a and b of a pattern of
\* the given kind: by their difference, or by their ratio
FifthFromFirstTwo(kind, a, b) ==
    IF kind = "arithmetic" THEN a + 4 * (b - a) ELSE a * (b \div a) ^ 4

\* C12: every number puzzle record is that of a pattern <<kind, start, step>>
\* with kind arithmetic or geometric, start in 1..9 and step in 2..5: its prompt
\* lists the 4 terms start + i*step (or start * step^i), i = 0..3, its answer
\* is the decimal string of the 5th term, and the 5th term recomputed from the
\* first two listed terms is the recorded answer.
C12_NumberRecordsCorrect ==
    (Built /\ cls = "PuzzleWorld") =>
        \A i \in 1..Len(number_puzzle_sequence) :
            \E pt \in NumberPatterns :
                /\ number_puzzle_sequence[i].question = PromptOf(pt)
                /\ number_puzzle_sequence[i].answer = ToString(Term(pt, 4))
                /\ number_puzzle_sequence[i].answer
                      = ToString(FifthFromFirstTwo(pt[1], Term(pt, 0), Term(pt, 1)))

\* a built PuzzleWorld whose 100 records hold a pattern of either kind
C12_Witness ==
    /\ Built
    /\ cls = "PuzzleWorld"
    /\ Len(number_puzzle_sequence) = num_number_puzzles
    /\ \A kind \in {"arithmetic", "geometric"} :
          \E i \in 1..Len(number_puzzle_sequence) :
             \E pt \in NumberPatterns :
                /\ pt[1] = kind
                /\ number_puzzle_sequence[i].question = PromptOf(pt)

\* C13: the two cursors are independent: a get_next_word_puzzle leaves the
\* number cursor (and what the number getter last returned) alone, a
\* get_next_number_puzzle leaves the word cursor alone, and each cursor is the
\* number of calls of its own kind modulo the length of its sequence, however
\* the calls of the other kind were interleaved.
C13_IndependentCursors ==
    [][(Built /\ cls = "PuzzleWorld") =>
         /\ word_calls' # word_calls =>
               UNCHANGED <<number_puzzle_index, number_ret, number_calls>>
         /\ number_calls' # number_calls =>
               UNCHANGED <<word_puzzle_index, word_ret, word_calls>>
         /\ Len(word_puzzle_sequence) >= 1 =>
               word_puzzle_index' = word_calls' % Len(word_puzzle_sequence)
         /\ number_puzzle_index' = number_calls' % Len(number_puzzle_sequence)
         /\ number_calls' >= 1 =>
               number_ret' = KthRecord(number_puzzle_sequence, number_calls')]_vars

\* calls of both kinds have been made, and the cursors stand apart
C13_Witness ==
    /\ Built
    /\ word_calls >= 2
    /\ number_calls >= 2
    /\ word_puzzle_index # number_puzzle_index

\* C14: for every node of a built PuzzleWorld, is_puzzle_adjacent(location) is
\* True exactly when one of the 3 neighbours of location is a puzzle station (a
\* member of get_puzzle_locations()).
C14_PuzzleAdjacentMeansStationNextDoor ==
    (Built /\ cls = "PuzzleWorld") =>
        \A location \in Nodes :
            is_puzzle_adjacent(location)
              <=> \E n \in ToSet(get_adjacent_locations(location)) :
                     n \in ToSet(get_puzzle_locations)

\* what get_unoccupied_locations() of the World's class returns
Unoccupied ==
    IF cls = "PuzzleWorld" THEN get_unoccupied_locations
    ELSE Adventure_get_unoccupied_locations

\* C15: in every state of a built World, relocations included,
\* get_unoccupied_locations() returns exactly the nodes of 1..20 that are not
\* the treasure, not a type1 or type2 hazard and not a puzzle station (map,
\* device): 20 - 7 = 13 nodes, each listed once.
C15_UnoccupiedIsTheRest ==
    Built =>
        /\ ToSet(Unoccupied) = Nodes \ ({treasure} \cup HazardSet \cup Stations)
        /\ Len(Unoccupied) = NumLocations - 7
        /\ Cardinality(ToSet(Unoccupied)) = NumLocations - 7

\* the treasure was moved: the node it was drawn on is listed as unoccupied
C15_Witness ==
    /\ Built
    /\ treasure # DrawnTreasure
    /\ DrawnTreasure \in ToSet(Unoccupied)

\* the placement _generate_world draws after self.rng.seed(s), for the World's class
PlacementOf(s) ==
    IF cls = "PuzzleWorld"
    THEN LET g == generate_world(RngSeed(gen, s), locations)
         IN  [treasure |-> g.treasure, type1 |-> g.type1, type2 |-> g.type2,
              puzzles |-> g.puzzles, map_location |-> None, device_location |-> None]
    ELSE LET g == Adventure_generate_world(RngSeed(gen, s), locations)
         IN  [treasure |-> g.treasure, type1 |-> g.type1, type2 |-> g.type2,
              puzzles |-> <<>>, map_location |-> g.map_location,
              device_location |-> g.device_location]

\* the placement the World holds
PlacementHeld ==
    [treasure |-> treasure, type1 |-> hazards.type1, type2 |-> hazards.type2,
     puzzles |-> puzzles, map_location |-> map_location,
     device_location |-> device_location]

\* the seeds a World holds: self.seed is its only seed attribute
SeedsHeld == {seed}

\* C16 as stated: a built World holds the originating (requested) seed as well
\* as the effective seed, also when the seed was advanced.
C16_BothSeedsHeld ==
    (Built /\ requested # None) =>
        /\ requested \in SeedsHeld
        /\ base_seed + attempt - 1 \in SeedsHeld

\* C16 amended: a built World holds one seed, the effective seed (the one that
\* regenerates the placement it holds); when the first attempt failed and the
\* seed was advanced, the requested seed is not held by the World any more.
C16_OnlyEffectiveSeedHeld ==
    Built =>
        /\ SeedsHeld = {base_seed + attempt - 1}
        /\ \A s \in SeedsHeld : PlacementOf(s) = PlacementHeld
        /\ (requested # None /\ attempt > 1) => requested \notin SeedsHeld

\* an AdventureWorld built on its second attempt or later, from a given seed
C16_Witness ==
    /\ Built
    /\ cls = "AdventureWorld"
    /\ requested # None
    /\ attempt > 1
    /\ seed # requested

\* C17: a World constructed from the seed stored in a built World, with the same
\* word list, has that World's stored seed, role assignment, word-puzzle
\* sequence and number-puzzle sequence, also when the stored seed had been
\* advanced past the requested one.
C17_RebuiltFromStoredSeed ==
    (/\ first # <<>>
     /\ Built
     /\ requested # None
     /\ requested = first[1].seed)
    => [Outcome EXCEPT !.requested = first[1].requested] = first[1]

\* C18: construction always terminates: a construction that has entered the
\* retry loop reaches the built World or the RuntimeError, and never makes more
\* than 1000 attempts.
C18_ConstructionTerminates ==
    /\ [](attempt <= MAX_ATTEMPTS)
    /\ (pc = "generating") ~> (pc \in {"built", "failed"})

\* a construction that ended after three or more attempts
C18_Witness ==
    /\ pc \in {"built", "failed"}
    /\ attempt >= 3
    /\ requested # None

\* whether the placement drawn after self.rng.seed(s) passes _validate_world
ValidatesAt(s) ==
    LET p == PlacementOf(s)
        h == [type1 |-> p.type1, type2 |-> p.type2]
    IN  IF cls = "PuzzleWorld"
        THEN validate_world(locations, h, p.puzzles, p.treasure).ok
        ELSE Adventure_validate_world(locations, h, p.treasure, p.map_location,
                                      p.device_location).ok

\* C20: the candidates are tried in the order s, s+1, s+2, ...: the candidate of
\* an attempt is s plus the number of attempts made before it, a rejected
\* candidate is followed by its successor, and the loop stops at the first
\* candidate that validates; so the effective seed of a built World is the
\* least e >= s whose placement validates, and every seed of s..e-1 gave a
\* placement that does not validate.
C20_FirstValidSeedWins ==
    /\ [](Built => /\ seed >= base_seed
                   /\ ValidatesAt(seed)
                   /\ \A k \in base_seed..(seed - 1) : ~ValidatesAt(k))
    /\ [][(pc = "generating" /\ attempt' # attempt) =>
             /\ attempt' = attempt + 1
             /\ cand_seed = base_seed + attempt
             /\ ok' = ValidatesAt(cand_seed)
             /\ ok' => (pc' = "built" /\ seed' = cand_seed)
             /\ ~ok' => (pc' = "generating" /\ cand_seed' = cand_seed + 1)]_vars

\* a PuzzleWorld built from the successor of a seed whose placement was rejected
C20_Witness ==
    /\ Built
    /\ cls = "PuzzleWorld"
    /\ seed = base_seed + 1
    /\ ~ValidatesAt(base_seed)

\* C21: the placement tested on an attempt is the one drawn from a generator
\* freshly seeded with the candidate seed of that attempt: it is a function of
\* the candidate seed alone, whatever the earlier attempts drew and whatever
\* puzzle preparation consumed (so whatever the word list is).
C21_PlacementFromCandidateAlone ==
    (pc \in {"generating", "built", "failed"} /\ attempt >= 1) =>
        PlacementHeld = PlacementOf(base_seed + attempt - 1)

\* a PuzzleWorld with two words whose second placement has just been rejected
C21_Witness ==
    /\ pc = "generating"
    /\ cls = "PuzzleWorld"
    /\ Len(word_list) = 2
    /\ attempt = 2
    /\ ~ok

\* the checks the validator makes before it walks the graph, as the description
\* of the validator lists them: the treasure is set, there are two stations, and
\* no objective is on a hazard
ListedChecksPass ==
    /\ treasure # None
    /\ None \notin Stations
    /\ Cardinality(Stations) = 2
    /\ Objectives \cap HazardSet = {}

\* every node that is no hazard reaches every objective through such nodes
AllReach == \A n \in Nodes \ HazardSet : Objectives \subseteq Closure({n}, HazardSet)

CannotReachReasons ==
    {"Start location cannot reach all objectives",
     "Start location cannot reach all key items."}

\* C22 as stated: for every placement that passes the listed checks (treasure
\* set, 2 stations, no objective on a hazard), _validate_world returns ok if and
\* only if every non-hazard node reaches every objective through non-hazard
\* nodes, and the 'cannot reach' failure if and only if some such node does not.
C22_ExactUnderListedChecks ==
    (pc = "validated" /\ ListedChecksPass) =>
        /\ ok <=> AllReach
        /\ reason[1] \in CannotReachReasons <=> ~AllReach

\* C22, amended: the same equivalences, for the placements that pass the listed
\* checks and, in a PuzzleWorld, do not have the treasure on a puzzle station
\* (PuzzleWorld's overlap test rejects those before the graph is walked).
C22_ExactUnderAllChecks ==
    (/\ pc = "validated"
     /\ ListedChecksPass
     /\ (cls = "PuzzleWorld" => treasure \notin Stations)) =>
        /\ ok <=> AllReach
        /\ reason[1] \in CannotReachReasons <=> ~AllReach

\* a placement that passes every check and whose hazards cut nodes 1 and 2 off
\* from the rest, the treasure being on one side and a station on the other
C22_Witness ==
    /\ pc = "validated"
    /\ ListedChecksPass
    /\ treasure \notin Stations
    /\ HazardSet = {3, 5, 8, 10}
    /\ treasure = 1
    /\ ~AllReach
    /\ ~ok
    /\ reason[1] \in CannotReachReasons

ObjectiveOnHazardReasons ==
    {"Treasure in hazard", "Puzzle location in hazard", "Key item in hazard."}

\* C23: each failed precondition has a failure reason of its own; a placement
\* whose treasure is set, that has its two stations, and in which the treasure
\* or a station is on a hazard node fails with the objective-on-hazard reason
\* ('Treasure in hazard' / 'Puzzle location in hazard').
C23_ObjectiveOnHazardReported ==
    (/\ pc = "validated"
     /\ treasure # None
     /\ None \notin Stations
     /\ Cardinality(Stations) = 2
     /\ Objectives \cap HazardSet # {}) =>
        /\ ~ok
        /\ reason[1] \in ObjectiveOnHazardReasons

\* C24: for every hazard set and every start that is no hazard, the traversal
\* reachable_from(start) terminates and returns exactly the nodes connected to
\* start in the graph without the hazard nodes; no hazard node is ever visited
\* or put on the queue, and a node that has been visited is never put on the
\* queue again.
C24_TraversalExact ==
    /\ [](bfs.at = "returned" =>
            /\ bfs.visited = Closure({bfs.start}, HazardSet)
            /\ bfs.visited = reachable_from(bfs.start, SafeGraphHeld))
    /\ [](bfs.at # "none" =>
            /\ bfs.visited \cap HazardSet = {}
            /\ ToSet(bfs.q) \cap HazardSet = {})
    /\ [][(bfs.at = "loop" /\ bfs'.at = "loop") =>
            \A i \in Len(bfs.q)..Len(bfs'.q) :
               /\ bfs'.q[i] \notin bfs'.visited
               /\ bfs'.q[i] \notin HazardSet]_vars
    /\ (bfs.at = "loop" ~> bfs.at = "returned")

\* a traversal that started on a node the hazards cut off, and returned that
\* node and its one free neighbour
C24_Witness ==
    /\ bfs.at = "returned"
    /\ HazardSet = {3, 5, 8, 10}
    /\ bfs.start = 1
    /\ bfs.visited = {1, 2}

\* C25: the topology _generate_dodecahedron returns has exactly the nodes 1..20;
\* every node has exactly 3 different neighbours in 1..20, none of them itself;
\* m is a neighbour of n iff n is a neighbour of m; the graph is connected; and
\* no operation of a World (build, validation, relocation, queries,
\* next-puzzle) changes it: a World holds that topology in every state.
C25_TopologyFixed ==
    pc # "new" =>
        /\ locations = generate_dodecahedron
        /\ DOMAIN locations = 1..20
        /\ \A n \in DOMAIN locations :
              /\ Len(locations[n]) = 3
              /\ Cardinality(ToSet(locations[n])) = 3
              /\ ToSet(locations[n]) \subseteq 1..20
              /\ n \notin ToSet(locations[n])
        /\ \A n \in DOMAIN locations, m \in DOMAIN locations :
              m \in ToSet(locations[n]) <=> n \in ToSet(locations[m])
        /\ Closure({1}, {}) = 1..20

\* a built World after a relocation that was accepted and a pull of each kind
C25_Witness ==
    /\ Built
    /\ called_with = "nothing"
    /\ exc = "None"
    /\ word_calls > 0
    /\ number_calls > 0
    /\ Cardinality(DOMAIN locations) = 20

\* how often x occurs in a sequence
Count(sequence, x) == Cardinality({i \in 1..Len(sequence) : sequence[i] = x})

WordAnswers == [i \in 1..Len(word_puzzle_sequence) |-> word_puzzle_sequence[i].answer]

LoweredWordList == [i \in 1..Len(word_list) |-> LowerWord(word_list[i])]

\* C26: puzzle preparation makes exactly one word record per input word, the
\* answers being a permutation of the lowercased word list, and exactly 100
\* number records; after construction no step resizes a sequence or alters a
\* record, and a cursor changes only in a next-puzzle call of its own kind, to
\* (cursor + 1) modulo the length of its sequence.
C26_SequencesFixedCursorsOwned ==
    /\ []((pc # "new" /\ cls = "PuzzleWorld") =>
            /\ Len(word_puzzle_sequence) = Len(word_list)
            /\ \A w \in ToSet(WordAnswers) \cup ToSet(LoweredWordList) :
                  Count(WordAnswers, w) = Count(LoweredWordList, w)
            /\ Len(number_puzzle_sequence) = 100)
    /\ [][(pc # "new" /\ cls = "PuzzleWorld") =>
            /\ word_puzzle_sequence' = word_puzzle_sequence
            /\ number_puzzle_sequence' = number_puzzle_sequence
            /\ IF word_calls' # word_calls
               THEN word_puzzle_index' =
                        (word_puzzle_index + 1) % Len(word_puzzle_sequence)
               ELSE word_puzzle_index' = word_puzzle_index
            /\ IF number_calls' # number_calls
               THEN number_puzzle_index' =
                        (number_puzzle_index + 1) % Len(number_puzzle_sequence)
               ELSE number_puzzle_index' = number_puzzle_index]_vars

\* a PuzzleWorld whose word cursor has gone round once, after one number puzzle
\* and a relocation that was accepted
C26_Witness ==
    /\ Built
    /\ cls = "PuzzleWorld"
    /\ Len(word_list) = 2
    /\ word_calls = 2
    /\ word_puzzle_index = 0
    /\ number_puzzle_index = 1
    /\ called_with = "nothing"

\* what _validate_world returns for the World as it stands
ValidationNow ==
    IF cls = "PuzzleWorld"
    THEN validate_world(locations, hazards, puzzles, treasure)
    ELSE Adventure_validate_world(locations, hazards, treasure, map_location,
                                  device_location)

\* C27: relocation keeps the World valid: in every state of a built World,
\* after any sequence of set_treasure_location calls, every node that is no
\* hazard reaches the treasure (where it is now) and every puzzle station
\* through such nodes only, and _validate_world would return ok.
C27_RelocationKeepsWorldValid ==
    Built =>
        /\ AllReach
        /\ ValidationNow.ok

\* a PuzzleWorld whose treasure was moved to a free node, away from where the
\* build had put it
C27_Witness ==
    /\ Built
    /\ cls = "PuzzleWorld"
    /\ called_with = "nothing"
    /\ exc = "None"
    /\ treasure # DrawnTreasure

\* the two sequences _prepare_puzzles makes from the stream of seed s
PuzzlesOf(s) ==
    LET pp == prepare_puzzles(RngSeed(gen, s), words_txt)
    IN  <<pp.word_puzzle_sequence, pp.number_puzzle_sequence>>

\* C28: in the construction of a PuzzleWorld both puzzle sequences are prepared
\* from the stream of the requested seed before the first placement attempt,
\* and no attempt, reseed or seed advance afterwards changes them or the
\* cursors: when the loop is entered they are the sequences of the requested
\* seed and the word list, and every step of the loop leaves them as they are,
\* however many attempts are made and whatever the effective seed.
C28_PuzzlesFromRequestedSeed ==
    /\ []((cls = "PuzzleWorld" /\ pc = "generating" /\ attempt = 0) =>
            /\ requested # None => base_seed = requested
            /\ <<word_puzzle_sequence, number_puzzle_sequence>> = PuzzlesOf(base_seed)
            /\ word_puzzle_index = 0
            /\ number_puzzle_index = 0)
    /\ [][(cls = "PuzzleWorld" /\ pc = "generating") =>
            UNCHANGED <<word_puzzle_sequence, number_puzzle_sequence,
                        word_puzzle_index, number_puzzle_index, base_seed,
                        requested, words_txt>>]_vars

\* a PuzzleWorld built at its second attempt: the effective seed is not the
\* requested one
C28_Witness ==
    /\ Built
    /\ cls = "PuzzleWorld"
    /\ Len(word_list) = 2
    /\ requested # None
    /\ attempt = 2
    /\ seed = requested + 1

\* C29: the effective seed is a fixed point of building: when a construction
\* succeeded with effective seed e, a construction that requests e succeeds at
\* its first attempt, has effective seed e, and has the treasure, the hazards
\* and the puzzle stations (map, device) of the first World.
C29_EffectiveSeedIsFixedPoint ==
    (/\ first # <<>>
     /\ first[1].pc = "built"
     /\ requested = first[1].seed
     /\ \/ pc \in {"built", "failed"}
        \/ pc = "generating" /\ attempt >= 1)
    =>
        /\ pc = "built"
        /\ attempt = 1
        /\ seed = first[1].seed
        /\ treasure = first[1].treasure
        /\ hazards = first[1].hazards
        /\ puzzles = first[1].puzzles
        /\ map_location = first[1].map_location
        /\ device_location = first[1].device_location

\* the first World was requested with seed 0 and built with seed 1; the second
\* is requested with seed 1
C29_Witness ==
    /\ first # <<>>
    /\ first[1].pc = "built"
    /\ first[1].requested = 0
    /\ first[1].seed = 1
    /\ requested = 1
    /\ Built

\* C30: in every state of a built PuzzleWorld whose word list is not empty,
\* 0 <= word_puzzle_index < len(word_puzzle_sequence) and
\* 0 <= number_puzzle_index < len(number_puzzle_sequence) = 100, and no call of
\* get_next_word_puzzle or get_next_number_puzzle, in any order and number,
\* raises IndexError.
C30_CursorsInRange ==
    (Built /\ cls = "PuzzleWorld" /\ Len(word_list) >= 1) =>
        /\ 0 <= word_puzzle_index
        /\ word_puzzle_index < Len(word_puzzle_sequence)
        /\ 0 <= number_puzzle_index
        /\ number_puzzle_index < Len(number_puzzle_sequence)
        /\ Len(number_puzzle_sequence) = 100
        /\ exc # "IndexError"

\* both sequences have been pulled past their ends
C30_Witness ==
    /\ Built
    /\ cls = "PuzzleWorld"
    /\ Len(word_list) = 2
    /\ word_calls > 2
    /\ number_calls > 100
    /\ exc = "None"
====
